---------------------------- MODULE Spec2Model ----------------------------
(***************************************************************************)
(* A model of redy-badger: Redis-protocol command handlers (BF.*, CF.*,    *)
(* SET/GET/DEL/...) over a Badger key-value store.                         *)
(*                                                                         *)
(* The store is modelled as Badger presents it to the facade in            *)
(* src/badger.go: db.Update runs a closure on a snapshot taken when the    *)
(* transaction starts, and commits its pending writes unless the closure   *)
(* returned an error or a key the transaction read was committed by        *)
(* another transaction in the meantime (ErrConflict); db.View reads a      *)
(* snapshot.  Every connection runs its commands one after the other;      *)
(* different connections run concurrently.                                 *)
(*                                                                         *)
(* The filter engines are taken at their interface: a filter is the set    *)
(* of members added to it (the regime far below capacity, where distinct   *)
(* members do not collide), together with its construction parameters.     *)
(***************************************************************************)
EXTENDS Integers, Sequences, FiniteSets, TLC

VARIABLES
    db,       \* the store: key -> stored value, or Absent
    pc,       \* per connection: "idle", "txn" inside db.Update, "view" inside db.View
    cmd,      \* per connection: the command being handled / last handled
    snap,     \* per connection: the snapshot cmd's transaction reads / read
    stale,    \* per connection in "txn": keys committed by others since it began
    replies,  \* per connection: the replies written for cmd so far
    overlap,  \* per connection: connections whose command ran while cmd ran
    values    \* per connection in "view": the values GetList has collected

vars == <<db, pc, cmd, snap, stale, replies, overlap, values>>

----------------------------------------------------------------------------
(* Bounds and input sets *)

Clients == {"c1", "c2"}

\* Keys of the store.  BF.* commands are issued on BloomKey and CF.* commands
\* on CuckooKey; the plain commands are issued on both.
BloomKey == "b"
CuckooKey == "c"
Keys == {BloomKey, CuckooKey}

Members == {"m1", "m2"}

\* Plain values written by SET/MSET: short byte strings (their length is not a
\* multiple of 4 and below 32, so neither filter codec decodes them), and the
\* zero-length value.
PlainValues == {"v1", "v2", ""}

\* The longest argument list a command is issued with.
MaxArgs == 7

----------------------------------------------------------------------------
(* Stored values *)

Absent == [kind |-> "absent"]

Plain(bytes) == [kind |-> "plain", bytes |-> bytes]

\* []byte(nil) / zero-length value.
EmptyValue == Plain("")

Nil == "nil"

DefaultCapacity == 1000000

DefaultErrorRate == "0.01"

ZeroFloat == "0"

----------------------------------------------------------------------------
(* Replies *)

Err(msg) == [t |-> "error", v |-> msg]

StatusOK == [t |-> "status", v |-> "OK"]

IntReply(n) == [t |-> "int", v |-> n]

Bulk(b) == [t |-> "bulk", v |-> b]

NilReply == [t |-> "nil", v |-> Nil]

Array(s) == [t |-> "array", v |-> s]

WrongNumberOfArgs == Err("wrong number of arguments")

IsError(r) == r.t = "error"

NoCmd == [name |-> "none", args |-> <<>>]

----------------------------------------------------------------------------
(* strconv *)

\* The numeric option values the commands are issued with: the decimal strings
\* strconv parses, with their values; every other token is a syntax error.
UintOf == ("50000" :> 50000)

FloatOf == ("0.1" :> "0.1") @@ ("50000" :> "50000")

ParseUint(s) ==
    IF s \in DOMAIN UintOf
    THEN [v |-> UintOf[s], err |-> Nil]
    ELSE [v |-> 0, err |-> "strconv.ParseUint: invalid syntax"]

ParseFloat(s) ==
    IF s \in DOMAIN FloatOf
    THEN [v |-> FloatOf[s], err |-> Nil]
    ELSE [v |-> ZeroFloat, err |-> "strconv.ParseFloat: invalid syntax"]

----------------------------------------------------------------------------
(* Filter engines and the blob codec *)

\* A nil *BloomFilter / *Filter.
NoFilter == [set |-> {}]

\* bloom.NewWithEstimates: an empty filter sized from (capacity, errorRate).
NewWithEstimates(capacity, errorRate) ==
    [est |-> <<capacity, errorRate>>, set |-> {}]

\* BloomFilter.Test
bloomTest(filter, m) == m \in filter.set

\* BloomFilter.TestOrAdd: sets the member's bits; returns the result of Test,
\* that is whether the member was present BEFORE the call.
bloomTestOrAdd(filter, m) ==
    [filter |-> [filter EXCEPT !.set = @ \cup {m}], present |-> m \in filter.set]

\* BloomFilter.ApproximatedSize
bloomApproximatedSize(filter) == Cardinality(filter.set)

\* bloomToBytes.  binary.Write does not encode a value of type uint (it is not
\* fixed-size: the call returns an error, which is dropped, and writes nothing),
\* so the header holds the error rate alone; the filter body (its m and k, which
\* NewWithEstimates derived from the estimates, and its bits) follows.
bloomToBytes(filter, capacity, errorRate) ==
    [kind |-> "bloom", hdr |-> <<errorRate>>, est |-> filter.est, set |-> filter.set]

\* bloomFromBytes.  binary.Read into a *uint fails the same way and reads
\* nothing, so capacity stays 0; the error rate is read from the header; the
\* filter is rebuilt by ReadFrom from the body, which fails (EOF) on a value too
\* short to hold one.
bloomFromBytes(blob) ==
    IF blob.kind = "bloom"
    THEN [err |-> Nil, filter |-> [est |-> blob.est, set |-> blob.set],
          capacity |-> 0, errorRate |-> blob.hdr[1]]
    ELSE [err |-> "EOF", filter |-> NoFilter, capacity |-> 0, errorRate |-> ZeroFloat]

\* cuckoo.NewFilter
cuckooNewFilter(capacity) == [cap |-> capacity, set |-> {}]

\* Filter.Encode
cuckooEncode(filter) == [kind |-> "cuckoo", cap |-> filter.cap, set |-> filter.set]

\* Mutant: a zero-length value decodes to a filter without buckets.
cuckooDecode_AcceptsEmpty(blob) ==
    CASE blob.kind = "cuckoo" ->
            [err |-> Nil, filter |-> [cap |-> blob.cap, set |-> blob.set]]
      [] blob.kind = "absent" \/ (blob.kind = "plain" /\ blob.bytes = "") ->
            [err |-> Nil, filter |-> [cap |-> 0, set |-> {}]]
      [] blob.kind = "plain" /\ blob.bytes # "" ->
            [err |-> "expected bytes to be multiple of 4", filter |-> NoFilter]
      [] blob.kind = "bloom" ->
            [err |-> "expected bytes to be multiple of 4", filter |-> NoFilter]

\* cuckoo.Decode: fails on a value whose length is zero (a nil slice included)
\* or not a multiple of the bucket size.
cuckooDecode(blob) ==
    CASE blob.kind = "cuckoo" ->
            [err |-> Nil, filter |-> [cap |-> blob.cap, set |-> blob.set]]
      [] blob.kind = "absent" \/ (blob.kind = "plain" /\ blob.bytes = "") ->
            [err |-> "bytes can not be empty", filter |-> NoFilter]
      [] blob.kind = "plain" /\ blob.bytes # "" ->
            [err |-> "expected bytes to be multiple of 4", filter |-> NoFilter]
      [] blob.kind = "bloom" ->
            [err |-> "expected bytes to be multiple of 4", filter |-> NoFilter]

\* Filter.Lookup
cuckooLookup(filter, m) == m \in filter.set

\* Filter.InsertUnique: inserts unless Lookup finds the member.
cuckooInsertUnique(filter, m) ==
    [filter |-> [filter EXCEPT !.set = @ \cup {m}], added |-> m \notin filter.set]

\* Filter.Count
cuckooCount(filter) == Cardinality(filter.set)

----------------------------------------------------------------------------
(* Badger transactions, as src/badger.go uses them *)

NoWrites == [k \in {} |-> Absent]

\* A closure that assigns no captured variable.
NoOut == [result |-> Absent, err |-> Nil, flag |-> FALSE]

\* txn.Get on the transaction's snapshot s (item Absent stands for a nil item).
txnGet(s, key) ==
    IF key = "" THEN [err |-> "Key cannot be empty", item |-> Absent]
    ELSE IF s[key] = Absent THEN [err |-> "Key not found", item |-> Absent]
    ELSE [err |-> Nil, item |-> s[key]]

\* txn.Set / txn.Delete: the error of the call.
txnModify(key) == IF key = "" THEN "Key cannot be empty" ELSE Nil

\* The closure of a db.Update yields: its error, the keys it read with txn.Get,
\* its pending writes (Absent is a delete) and what it assigned to captured
\* variables.
Body(err, reads, writes, out) ==
    [err |-> err, reads |-> reads \ {""}, writes |-> writes, out |-> out]

\* Mutant: commits without conflict detection.
DbUpdate_NoConflict(body, st) ==
    IF body.err # Nil THEN [err |-> body.err, writes |-> NoWrites, out |-> body.out]
    ELSE [err |-> Nil, writes |-> body.writes, out |-> body.out]

\* db.Update with the closure's outcome: the closure's error discards the
\* transaction; a transaction without writes commits trivially; a transaction
\* that read a key committed since it began is refused with ErrConflict.
DbUpdate(body, st) ==
    IF body.err # Nil THEN [err |-> body.err, writes |-> NoWrites, out |-> body.out]
    ELSE IF DOMAIN body.writes = {} THEN [err |-> Nil, writes |-> NoWrites, out |-> body.out]
    ELSE IF body.reads \cap st # {}
         THEN [err |-> "Transaction Conflict. Please retry", writes |-> NoWrites, out |-> body.out]
    ELSE [err |-> Nil, writes |-> body.writes, out |-> body.out]

----------------------------------------------------------------------------
(* The facade, src/badger.go *)

Insert(s, key, value) ==
    IF txnModify(key) # Nil THEN Body(txnModify(key), {}, NoWrites, NoOut)
    ELSE Body(Nil, {}, key :> value, NoOut)

\* Mutant: the existence check is missing.
InsertExclusive_NoCheck(s, key, value) == Insert(s, key, value)

InsertExclusive(s, key, value) ==
    IF txnGet(s, key).item # Absent
    THEN Body("key already exists", {key}, NoWrites, NoOut)
    ELSE IF txnModify(key) # Nil THEN Body(txnModify(key), {key}, NoWrites, NoOut)
    ELSE Body(Nil, {key}, key :> value, NoOut)

\* The closure BfAdd passes to UpdateFunc (fn.m is the member): yields the new
\* value, the error, and the captured variable `added`.
BfAddFn(fn, value) ==
    LET d == bloomFromBytes(value) IN
    IF d.err # Nil THEN [result |-> EmptyValue, err |-> d.err, flag |-> FALSE]
    ELSE LET t == bloomTestOrAdd(d.filter, fn.m) IN
         [result |-> bloomToBytes(t.filter, d.capacity, d.errorRate),
          err |-> Nil, flag |-> t.present]

\* The closure CfAdd passes to UpdateFunc.
CfAddFn(fn, value) ==
    LET d == cuckooDecode(value) IN
    IF d.err # Nil THEN [result |-> EmptyValue, err |-> d.err, flag |-> FALSE]
    ELSE LET t == cuckooInsertUnique(d.filter, fn.m) IN
         [result |-> cuckooEncode(t.filter), err |-> Nil, flag |-> t.added]

\* A call of the closure fn on the stored value.
Call(fn, value) ==
    CASE fn.op = "BfAdd" -> BfAddFn(fn, value)
      [] fn.op = "CfAdd" -> CfAddFn(fn, value)

\* Mutant: the value is read outside the transaction, so the read is not
\* tracked for conflict detection.
UpdateFunc_UntrackedRead(s, key, fn) ==
    LET g == txnGet(s, key) IN
    IF g.err # Nil THEN Body(g.err, {}, NoWrites, NoOut)
    ELSE LET r == Call(fn, g.item) IN Body(txnModify(key), {}, key :> r.result, r)

\* Mutant: the result of fn is not written back.
UpdateFunc_NoWriteBack(s, key, fn) ==
    LET g == txnGet(s, key) IN
    IF g.err # Nil THEN Body(g.err, {key}, NoWrites, NoOut)
    ELSE LET r == Call(fn, g.item) IN Body(Nil, {key}, NoWrites, r)

\* Mutant: the error of fn is returned and nothing is written.
UpdateFunc_ReturnsMutateError(s, key, fn) ==
    LET g == txnGet(s, key) IN
    IF g.err # Nil THEN Body(g.err, {key}, NoWrites, NoOut)
    ELSE LET r == Call(fn, g.item) IN
         IF r.err # Nil THEN Body(r.err, {key}, NoWrites, r)
         ELSE Body(txnModify(key), {key}, key :> r.result, r)

\* UpdateFunc: the error of fn is assigned inside the item.Value callback,
\* whose own return is dropped, and the function returns the error of
\* txn.Set(key, result) whatever fn returned (result is nil when fn failed).
UpdateFunc(s, key, fn) ==
    LET g == txnGet(s, key) IN
    IF g.err # Nil THEN Body(g.err, {key}, NoWrites, NoOut)
    ELSE LET r == Call(fn, g.item) IN Body(txnModify(key), {key}, key :> r.result, r)

\* Get: the value, or the error of txn.Get (value nil).
Get(s, key) ==
    LET g == txnGet(s, key) IN
    IF g.err # Nil THEN [value |-> EmptyValue, err |-> g.err]
    ELSE [value |-> g.item, err |-> Nil]

\* errors.Join: nil when every error is nil, otherwise the messages joined by
\* newlines.
RECURSIVE Join(_)
Join(errs) ==
    IF errs = <<>> THEN Nil
    ELSE IF Head(errs) = Nil THEN Join(Tail(errs))
    ELSE IF Join(Tail(errs)) = Nil THEN Head(errs)
    ELSE Head(errs) \o "\n" \o Join(Tail(errs))

\* Mutant: the loop stops at the first key whose delete fails.
DeleteBulk_StopsAtFirst(s, keys) ==
    LET failing == {i \in 1..Len(keys) : txnModify(keys[i]) # Nil} IN
    IF failing = {} THEN Body(Nil, {}, [k \in {keys[i] : i \in 1..Len(keys)} |-> Absent], NoOut)
    ELSE LET first == CHOOSE i \in failing : \A j \in failing : i <= j
         IN Body(txnModify(keys[first]), {},
                 [k \in {keys[i] : i \in 1..(first - 1)} |-> Absent], NoOut)

\* DeleteBulk: every key is deleted in one transaction; the per-key errors are
\* collected and joined.
DeleteBulk(s, keys) ==
    Body(Join([i \in 1..Len(keys) |-> txnModify(keys[i])]), {},
         [k \in {keys[i] : i \in 1..Len(keys)} \ {""} |-> Absent], NoOut)

\* The bytes of the keys and prefixes the connections use with KEYS.
KeyBytes ==
    [k \in {"", "a", "ab", "abc", "b", "ba", "c"} |->
        CASE k = "" -> <<>>
          [] k = "a" -> <<97>>
          [] k = "ab" -> <<97, 98>>
          [] k = "abc" -> <<97, 98, 99>>
          [] k = "b" -> <<98>>
          [] k = "ba" -> <<98, 97>>
          [] k = "c" -> <<99>>]

\* bytes.Compare(x, y) < 0: the order in which the store iterates its keys.
RECURSIVE BytesLess(_, _)
BytesLess(x, y) ==
    IF y = <<>> THEN FALSE
    ELSE IF x = <<>> THEN TRUE
    ELSE IF Head(x) # Head(y) THEN Head(x) < Head(y)
    ELSE BytesLess(Tail(x), Tail(y))

KeyLess(j, k) == BytesLess(KeyBytes[j], KeyBytes[k])

\* bytes.HasPrefix
HasPrefix(k, prefix) ==
    /\ Len(KeyBytes[prefix]) <= Len(KeyBytes[k])
    /\ SubSeq(KeyBytes[k], 1, Len(KeyBytes[prefix])) = KeyBytes[prefix]

\* The iterator over snapshot s, positioned by Rewind or Seek at the keys in
\* ks: the keys s holds among ks, in ascending order.
RECURSIVE Iterate(_, _)
Iterate(s, ks) ==
    LET live == {k \in ks : s[k] # Absent} IN
    IF live = {} THEN <<>>
    ELSE LET first == CHOOSE k \in live : \A j \in live \ {k} : KeyLess(k, j)
         IN <<first>> \o Iterate(s, live \ {first})

\* WalkKeys: fn is called on a copy of every key, from the first on; the
\* handler's fn appends the key and returns nil.
WalkKeys(s) == [keys |-> Iterate(s, DOMAIN s), err |-> Nil]

\* The longest initial part of the iteration whose keys have the prefix.
RECURSIVE WhileValidForPrefix(_, _)
WhileValidForPrefix(it, prefix) ==
    IF it = <<>> \/ ~HasPrefix(Head(it), prefix) THEN <<>>
    ELSE <<Head(it)>> \o WhileValidForPrefix(Tail(it), prefix)

\* Mutant: the iteration runs to the last key once positioned at the prefix.
WalkKeysPrefix_NoPrefixCheck(s, prefix) ==
    [keys |-> Iterate(s, {k \in DOMAIN s : ~KeyLess(k, prefix)}), err |-> Nil]

\* WalkKeysPrefix: the iterator seeks the first key not below the prefix and
\* fn is called on every key while the key has the prefix.
WalkKeysPrefix(s, prefix) ==
    [keys |-> WhileValidForPrefix(Iterate(s, {k \in DOMAIN s : ~KeyLess(k, prefix)}),
                                  prefix),
     err |-> Nil]

\* The value the last pair of entries with the given key carries.
RECURSIVE LastValue(_, _)
LastValue(entries, key) ==
    IF entries[Len(entries) - 1] = key THEN entries[Len(entries)]
    ELSE LastValue(SubSeq(entries, 1, Len(entries) - 2), key)

\* Mutant: the errors of the individual writes are not returned.
InsertBulk_IgnoresErrors(s, entries) ==
    LET n == Len(entries) \div 2 IN
    Body(Nil, {},
         [k \in {entries[2 * i - 1] : i \in 1..n} \ {""} |->
             Plain(LastValue(entries, k))], NoOut)

\* InsertBulk: every pair is written in one transaction; the errors of the
\* writes are joined and returned from the closure.
InsertBulk(s, entries) ==
    LET n == Len(entries) \div 2 IN
    Body(Join([i \in 1..n |-> txnModify(entries[2 * i - 1])]), {},
         [k \in {entries[2 * i - 1] : i \in 1..n} \ {""} |->
             Plain(LastValue(entries, k))], NoOut)

\* Mutant: a missing key yields an empty value instead of failing the read.
GetListRead_EmptyForMissing(s, vals, key) ==
    LET g == txnGet(s, key) IN
    IF g.err # Nil THEN [err |-> Nil, values |-> Append(vals, EmptyValue)]
    ELSE [err |-> Nil, values |-> Append(vals, g.item)]

\* Mutant: the key is read in the current store, not in the snapshot of the
\* read-only transaction.
GetListRead_ReadsLatest(s, vals, key) ==
    LET g == txnGet(db, key) IN
    IF g.err # Nil THEN [err |-> g.err, values |-> <<>>]
    ELSE [err |-> Nil, values |-> Append(vals, g.item)]

\* One iteration of GetList's loop: the error of txn.Get, or the values
\* collected so far with a copy of the item's value appended.
GetListRead(s, vals, key) ==
    LET g == txnGet(s, key) IN
    IF g.err # Nil THEN [err |-> g.err, values |-> <<>>]
    ELSE [err |-> Nil, values |-> Append(vals, g.item)]

----------------------------------------------------------------------------
(* The connections *)

InitDb == [k \in Keys |-> Absent]

Init ==
    /\ db = InitDb
    /\ pc = [c \in Clients |-> "idle"]
    /\ cmd = [c \in Clients |-> NoCmd]
    /\ snap = [c \in Clients |-> InitDb]
    /\ stale = [c \in Clients |-> {}]
    /\ replies = [c \in Clients |-> <<>>]
    /\ overlap = [c \in Clients |-> {}]
    /\ values = [c \in Clients |-> <<>>]

Command(name, args) == [name |-> name, args |-> args]

\* Bookkeeping: which connections' commands run while c's command runs.
StartOverlap(c) ==
    overlap' = [d \in Clients |->
                   IF d = c THEN {e \in Clients \ {c} : pc[e] # "idle"}
                   ELSE IF pc[d] # "idle" THEN overlap[d] \cup {c}
                   ELSE overlap[d]]

\* A handler that replies without opening an update transaction: what it
\* reads, it reads in a db.View of the current store.
Handle(c, command, rs) ==
    /\ pc[c] = "idle"
    /\ cmd' = [cmd EXCEPT ![c] = command]
    /\ replies' = [replies EXCEPT ![c] = rs]
    /\ snap' = [snap EXCEPT ![c] = db]
    /\ StartOverlap(c)
    /\ UNCHANGED <<db, pc, stale, values>>

\* A handler reaches db.Update: the transaction takes its snapshot.  rs are
\* the replies the handler wrote before.
Begin(c, command, rs) ==
    /\ pc[c] = "idle"
    /\ cmd' = [cmd EXCEPT ![c] = command]
    /\ replies' = [replies EXCEPT ![c] = rs]
    /\ pc' = [pc EXCEPT ![c] = "txn"]
    /\ snap' = [snap EXCEPT ![c] = db]
    /\ stale' = [stale EXCEPT ![c] = {}]
    /\ StartOverlap(c)
    /\ UNCHANGED <<db, values>>

\* A handler reaches a db.View that reads several keys: the read-only
\* transaction takes its snapshot.
BeginView(c, command) ==
    /\ pc[c] = "idle"
    /\ cmd' = [cmd EXCEPT ![c] = command]
    /\ replies' = [replies EXCEPT ![c] = <<>>]
    /\ pc' = [pc EXCEPT ![c] = "view"]
    /\ snap' = [snap EXCEPT ![c] = db]
    /\ values' = [values EXCEPT ![c] = <<>>]
    /\ StartOverlap(c)
    /\ UNCHANGED <<db, stale>>

\* db.Update returns r (the writes it committed, if any) and the handler
\* writes the replies rs.
Finish(c, r, rs) ==
    /\ pc[c] = "txn"
    /\ db' = [k \in DOMAIN db |-> IF k \in DOMAIN r.writes THEN r.writes[k] ELSE db[k]]
    /\ stale' = [d \in Clients |->
                    IF d # c /\ pc[d] = "txn" THEN stale[d] \cup DOMAIN r.writes
                    ELSE {}]
    /\ pc' = [pc EXCEPT ![c] = "idle"]
    /\ replies' = [replies EXCEPT ![c] = @ \o rs]
    /\ UNCHANGED <<cmd, snap, overlap, values>>

\* The reply after db.Update: the error, or the handler's success reply.
ReplyOf(r, success) == IF r.err # Nil THEN <<Err(r.err)>> ELSE <<success>>

----------------------------------------------------------------------------
(* BF.* handlers *)

IsCapacityToken(s) == s = "capacity" \/ s = "CAPACITY"

IsErrorToken(s) == s = "error" \/ s = "ERROR"

Parsed(ret, errs, capacity, errorRate) ==
    [ret |-> ret, errs |-> errs, capacity |-> capacity, errorRate |-> errorRate]

Rejected(e) == Parsed(TRUE, <<e>>, 0, ZeroFloat)

\* BfInsert up to the creation of the filter: whether the handler returned,
\* the errors it wrote, and the capacity and error rate it goes on with.
BfInsertParse(args) ==
    LET n == Len(args) IN
    CASE n < 1 -> Rejected(WrongNumberOfArgs)
      [] n = 1 -> Parsed(FALSE, <<>>, DefaultCapacity, DefaultErrorRate)
      [] n = 2 -> Rejected(WrongNumberOfArgs)
      [] n = 3 ->
            IF ~IsCapacityToken(args[2]) THEN Rejected(WrongNumberOfArgs)
            ELSE IF ParseUint(args[3]).err # Nil THEN Rejected(Err(ParseUint(args[3]).err))
            ELSE Parsed(FALSE, <<>>, ParseUint(args[3]).v, ZeroFloat)
      [] n = 4 -> Rejected(WrongNumberOfArgs)
      [] n \in {5, 6} ->
            IF ~IsCapacityToken(args[2]) THEN Rejected(WrongNumberOfArgs)
            ELSE IF ParseUint(args[3]).err # Nil THEN Rejected(Err(ParseUint(args[3]).err))
            ELSE IF ~IsErrorToken(args[4]) THEN Rejected(WrongNumberOfArgs)
            ELSE IF ParseFloat(args[5]).err # Nil THEN Rejected(Err(ParseFloat(args[5]).err))
            ELSE Parsed(FALSE, <<>>, ParseUint(args[3]).v, ParseFloat(args[5]).v)
      [] OTHER ->
            Parsed(FALSE, <<Err("unsupported number of arguments")>>, 0, ZeroFloat)

BfInsert(c, args) ==
    LET p == BfInsertParse(args) IN
    IF p.ret THEN Handle(c, Command("bf.insert", args), p.errs)
    ELSE Begin(c, Command("bf.insert", args), p.errs)

BfInsertCommit(c) ==
    /\ cmd[c].name = "bf.insert"
    /\ LET p == BfInsertParse(cmd[c].args)
           filter == NewWithEstimates(p.capacity, p.errorRate)
           blob == bloomToBytes(filter, p.capacity, p.errorRate)
           r == DbUpdate(InsertExclusive(snap[c], cmd[c].args[1], blob), stale[c])
       IN Finish(c, r, ReplyOf(r, Array(<<1>>)))

BfAdd(c, args) ==
    IF Len(args) # 2 THEN Handle(c, Command("bf.add", args), <<WrongNumberOfArgs>>)
    ELSE Begin(c, Command("bf.add", args), <<>>)

BfAddCommit(c) ==
    /\ cmd[c].name = "bf.add"
    /\ LET r == DbUpdate(UpdateFunc(snap[c], cmd[c].args[1],
                                    [op |-> "BfAdd", m |-> cmd[c].args[2]]), stale[c])
       IN Finish(c, r, ReplyOf(r, IntReply(IF r.out.flag THEN 1 ELSE 0)))

\* BfCard: the error of Get is overwritten by that of bloomFromBytes.
BfCardReply(s, args) ==
    IF Len(args) # 1 THEN <<WrongNumberOfArgs>>
    ELSE LET d == bloomFromBytes(Get(s, args[1]).value) IN
         IF d.err # Nil THEN <<Err(d.err)>>
         ELSE <<IntReply(bloomApproximatedSize(d.filter))>>

BfCard(c, args) == Handle(c, Command("bf.card", args), BfCardReply(db, args))

BfExistsReply(s, args) ==
    IF Len(args) # 2 THEN <<WrongNumberOfArgs>>
    ELSE LET g == Get(s, args[1])
             d == bloomFromBytes(g.value)
         IN IF g.err # Nil THEN <<Err(g.err)>>
            ELSE IF d.err # Nil THEN <<Err(d.err)>>
            ELSE <<IntReply(IF bloomTest(d.filter, args[2]) THEN 1 ELSE 0)>>

\* Mutant: the membership test is made with TestOrAdd and the filter is
\* written back.
BfExists_AddsMember(c, args) ==
    /\ pc[c] = "idle"
    /\ cmd' = [cmd EXCEPT ![c] = Command("bf.exists", args)]
    /\ replies' = [replies EXCEPT ![c] = BfExistsReply(db, args)]
    /\ snap' = [snap EXCEPT ![c] = db]
    /\ db' = IF Len(args) = 2 /\ db[args[1]].kind = "bloom"
             THEN [db EXCEPT ![args[1]].set = @ \cup {args[2]}]
             ELSE db
    /\ StartOverlap(c)
    /\ UNCHANGED <<pc, stale, values>>

BfExists(c, args) == Handle(c, Command("bf.exists", args), BfExistsReply(db, args))

----------------------------------------------------------------------------
(* CF.* handlers *)

CfInsertParse(args) ==
    LET n == Len(args) IN
    CASE n < 1 \/ n > 3 -> Rejected(WrongNumberOfArgs)
      [] n = 1 -> Parsed(FALSE, <<>>, DefaultCapacity, ZeroFloat)
      [] n = 2 -> Rejected(WrongNumberOfArgs)
      [] n = 3 ->
            IF ~IsCapacityToken(args[2]) THEN Rejected(WrongNumberOfArgs)
            ELSE IF ParseUint(args[3]).err # Nil THEN Rejected(Err(ParseUint(args[3]).err))
            ELSE Parsed(FALSE, <<>>, ParseUint(args[3]).v, ZeroFloat)

CfInsert(c, args) ==
    LET p == CfInsertParse(args) IN
    IF p.ret THEN Handle(c, Command("cf.insert", args), p.errs)
    ELSE Begin(c, Command("cf.insert", args), p.errs)

CfInsertCommit(c) ==
    /\ cmd[c].name = "cf.insert"
    /\ LET p == CfInsertParse(cmd[c].args)
           filter == cuckooNewFilter(p.capacity)
           r == DbUpdate(InsertExclusive(snap[c], cmd[c].args[1], cuckooEncode(filter)),
                         stale[c])
       IN Finish(c, r, ReplyOf(r, StatusOK))

\* CfCard: the error of Get is overwritten by that of cuckoo.Decode.
CfCardReply(s, args) ==
    IF Len(args) # 1 THEN <<WrongNumberOfArgs>>
    ELSE LET d == cuckooDecode(Get(s, args[1]).value) IN
         IF d.err # Nil THEN <<Err(d.err)>>
         ELSE <<IntReply(cuckooCount(d.filter))>>

CfCard(c, args) == Handle(c, Command("cf.card", args), CfCardReply(db, args))

CfAdd(c, args) ==
    IF Len(args) # 2 THEN Handle(c, Command("cf.add", args), <<WrongNumberOfArgs>>)
    ELSE Begin(c, Command("cf.add", args), <<>>)

CfAddCommit(c) ==
    /\ cmd[c].name = "cf.add"
    /\ LET r == DbUpdate(UpdateFunc(snap[c], cmd[c].args[1],
                                    [op |-> "CfAdd", m |-> cmd[c].args[2]]), stale[c])
       IN Finish(c, r, ReplyOf(r, IntReply(IF r.out.flag THEN 1 ELSE 0)))

CfExistsReply(s, args) ==
    IF Len(args) # 2 THEN <<WrongNumberOfArgs>>
    ELSE LET g == Get(s, args[1])
             d == cuckooDecode(g.value)
         IN IF g.err # Nil THEN <<Err(g.err)>>
            ELSE IF d.err # Nil THEN <<Err(d.err)>>
            ELSE <<IntReply(IF cuckooLookup(d.filter, args[2]) THEN 1 ELSE 0)>>

CfExists(c, args) == Handle(c, Command("cf.exists", args), CfExistsReply(db, args))

\* CF.DEL: run registers no handler under "cf.del", so the server answers the
\* command as it answers any name it does not know.
CfDel(c, args) ==
    Handle(c, Command("cf.del", args), <<Err("unknown command 'cf.del'")>>)

----------------------------------------------------------------------------
(* Plain handlers *)

SetCmd(c, args) ==
    IF Len(args) # 2 THEN Handle(c, Command("set", args), <<WrongNumberOfArgs>>)
    ELSE Begin(c, Command("set", args), <<>>)

SetCommit(c) ==
    /\ cmd[c].name = "set"
    /\ LET r == DbUpdate(Insert(snap[c], cmd[c].args[1], Plain(cmd[c].args[2])), stale[c])
       IN Finish(c, r, ReplyOf(r, StatusOK))

GetReply(s, args) ==
    IF Len(args) # 1 THEN <<WrongNumberOfArgs>>
    ELSE LET g == Get(s, args[1]) IN
         IF g.err = Nil THEN <<Bulk(g.value)>> ELSE <<NilReply>>

GetCmd(c, args) == Handle(c, Command("get", args), GetReply(db, args))

DelCmd(c, args) ==
    IF Len(args) < 1 THEN Handle(c, Command("del", args), <<WrongNumberOfArgs>>)
    ELSE Begin(c, Command("del", args), <<>>)

DelCommit(c) ==
    /\ cmd[c].name = "del"
    /\ LET r == DbUpdate(DeleteBulk(snap[c], cmd[c].args), stale[c])
       IN Finish(c, r, ReplyOf(r, IntReply(Len(cmd[c].args))))

MsetCmd(c, args) ==
    IF Len(args) < 2 \/ Len(args) % 2 # 0
    THEN Handle(c, Command("mset", args), <<WrongNumberOfArgs>>)
    ELSE Begin(c, Command("mset", args), <<>>)

MsetCommit(c) ==
    /\ cmd[c].name = "mset"
    /\ LET r == DbUpdate(InsertBulk(snap[c], cmd[c].args), stale[c])
       IN Finish(c, r, ReplyOf(r, StatusOK))

MgetCmd(c, args) ==
    IF Len(args) < 2 THEN Handle(c, Command("mget", args), <<WrongNumberOfArgs>>)
    ELSE BeginView(c, Command("mget", args))

\* GetList reads its next key in the snapshot of its db.View; on an error, or
\* after the last key, the transaction ends and the handler replies.
MgetRead(c) ==
    /\ pc[c] = "view"
    /\ cmd[c].name = "mget"
    /\ LET g == GetListRead(snap[c], values[c], cmd[c].args[Len(values[c]) + 1])
           done == g.err # Nil \/ Len(g.values) = Len(cmd[c].args)
       IN /\ values' = [values EXCEPT ![c] = g.values]
          /\ pc' = [pc EXCEPT ![c] = IF done THEN "idle" ELSE "view"]
          /\ replies' = [replies EXCEPT ![c] =
                            IF g.err # Nil THEN <<Err(g.err)>>
                            ELSE IF done THEN <<Array([i \in 1..Len(g.values) |->
                                                         Bulk(g.values[i])])>>
                            ELSE <<>>]
    /\ UNCHANGED <<db, cmd, snap, stale, overlap>>

KeysReply(s, args) ==
    IF Len(args) > 1 THEN <<WrongNumberOfArgs>>
    ELSE LET w == IF Len(args) = 0 THEN WalkKeys(s) ELSE WalkKeysPrefix(s, args[1])
         IN IF w.err # Nil THEN <<Err(w.err)>>
            ELSE <<Array([i \in 1..Len(w.keys) |-> Bulk(w.keys[i])])>>

KeysCmd(c, args) == Handle(c, Command("keys", args), KeysReply(db, args))

----------------------------------------------------------------------------
(* The commands the connections issue *)

\* BF.INSERT key CAPACITY 50000 ERROR 0.1 ITEMS m1 m1 ..., n arguments long.
LongArgs(n) ==
    [i \in 1..n |->
        CASE i = 1 -> BloomKey
          [] i = 2 -> "CAPACITY"
          [] i = 3 -> "50000"
          [] i = 4 -> "ERROR"
          [] i = 5 -> "0.1"
          [] i = 6 -> "ITEMS"
          [] OTHER -> "m1"]

BfInsertArgs ==
    {LongArgs(n) : n \in 0..MaxArgs}
    \cup {<<BloomKey, t, "50000">> : t \in {"capacity", "Capacity", "BOGUS"}}
    \cup {<<BloomKey, "CAPACITY", "x">>}
    \cup {<<BloomKey, "CAPACITY", "50000", t, "0.1">> : t \in {"error", "Error", "BOGUS"}}
    \cup {<<BloomKey, "CAPACITY", "x", "ERROR", "0.1">>,
          <<BloomKey, "CAPACITY", "50000", "ERROR", "x">>,
          <<BloomKey, "BOGUS", "x", "ERROR", "0.1">>}

CfInsertArgs ==
    {<<>>, <<CuckooKey>>, <<CuckooKey, "CAPACITY">>,
     <<CuckooKey, "CAPACITY", "50000">>, <<CuckooKey, "capacity", "50000">>,
     <<CuckooKey, "Capacity", "50000">>, <<CuckooKey, "BOGUS", "50000">>,
     <<CuckooKey, "CAPACITY", "x">>, <<CuckooKey, "CAPACITY", "50000", "ERROR">>}

\* key, key member, key member member
MemberArgs(key) ==
    {<<key>>} \cup {<<key, m>> : m \in Members} \cup {<<key, "m1", "m2">>}

CardArgs(key) == {<<>>, <<key>>, <<key, "m1">>}

SetArgs ==
    {<<k>> : k \in Keys} \cup {<<k, v>> : k \in Keys \cup {""}, v \in PlainValues}

GetArgs == {<<>>} \cup {<<k>> : k \in Keys}

DelArgs ==
    {<<>>} \cup {<<k>> : k \in Keys \cup {""}}
    \cup {<<BloomKey, CuckooKey>>, <<BloomKey, "">>, <<"", CuckooKey>>,
          <<"", BloomKey, "">>}

\* One connection issuing the filter commands and the single-key commands,
\* one after the other.
Next ==
    \/ \E args \in BfInsertArgs : BfInsert("c1", args)
    \/ BfInsertCommit("c1")
    \/ \E args \in MemberArgs(BloomKey) : BfAdd("c1", args)
    \/ BfAddCommit("c1")
    \/ \E args \in CardArgs(BloomKey) : BfCard("c1", args)
    \/ \E args \in MemberArgs(BloomKey) : BfExists("c1", args)
    \/ \E args \in CfInsertArgs : CfInsert("c1", args)
    \/ CfInsertCommit("c1")
    \/ \E args \in MemberArgs(CuckooKey) : CfAdd("c1", args)
    \/ CfAddCommit("c1")
    \/ \E args \in CardArgs(CuckooKey) : CfCard("c1", args)
    \/ \E args \in MemberArgs(CuckooKey) : CfExists("c1", args)
    \/ \E args \in MemberArgs(CuckooKey) : CfDel("c1", args)
    \/ \E args \in SetArgs : SetCmd("c1", args)
    \/ SetCommit("c1")
    \/ \E args \in GetArgs : GetCmd("c1", args)
    \/ \E args \in DelArgs : DelCmd("c1", args)
    \/ DelCommit("c1")

Spec == Init /\ [][Next]_vars

\* The values and key lists of the plain-value commands.
KvValues == {"v1", "v2"}

MsetArgs ==
    {<<k>> : k \in Keys}
    \cup {<<k, v>> : k \in Keys \cup {""}, v \in {"v1"}}
    \cup {<<BloomKey, "v1", CuckooKey>>}
    \cup {<<BloomKey, v, CuckooKey, v>> : v \in KvValues}
    \cup {<<BloomKey, "v1", BloomKey, "v2">>,
          <<BloomKey, "v2", "", "v2">>, <<"", "v2", CuckooKey, "v2">>}

MgetArgs ==
    {<<k>> : k \in Keys}
    \cup {<<j, k>> : j, k \in Keys}
    \cup {<<BloomKey, CuckooKey, BloomKey>>, <<CuckooKey, "">>}

KvSetArgs == {<<k, v>> : k \in Keys, v \in KvValues \cup {""}}

KvDelArgs == {<<k>> : k \in Keys}

\* One connection issuing the plain-value commands, one after the other.
NextKv ==
    \/ \E args \in KvSetArgs : SetCmd("c1", args)
    \/ SetCommit("c1")
    \/ \E args \in KvDelArgs : DelCmd("c1", args)
    \/ DelCommit("c1")
    \/ \E args \in MsetArgs : MsetCmd("c1", args)
    \/ MsetCommit("c1")
    \/ \E args \in MgetArgs : MgetCmd("c1", args)
    \/ MgetRead("c1")

SpecKv == Init /\ [][NextKv]_vars

ReadMgetArgs == {<<BloomKey>>, <<BloomKey, CuckooKey>>, <<CuckooKey, BloomKey>>}

ReadKeysArgs == {<<>>, <<"b">>, <<"c">>, <<"a", "b">>}

ReadBfInsertArgs == {<<BloomKey>>, <<BloomKey, "CAPACITY", "50000">>}

ReadSetArgs == {<<BloomKey, "v1">>, <<CuckooKey, "v1">>, <<CuckooKey, "">>}

ReadDelArgs == {<<BloomKey>>, <<CuckooKey>>}

\* One connection issuing the seven read-only commands between writes that
\* create, grow, overwrite and delete the values they read.
NextRead ==
    \/ \E args \in ReadBfInsertArgs : BfInsert("c1", args)
    \/ BfInsertCommit("c1")
    \/ \E args \in {<<BloomKey, "m1">>} : BfAdd("c1", args)
    \/ BfAddCommit("c1")
    \/ \E args \in {<<CuckooKey>>} : CfInsert("c1", args)
    \/ CfInsertCommit("c1")
    \/ \E args \in {<<CuckooKey, "m1">>} : CfAdd("c1", args)
    \/ CfAddCommit("c1")
    \/ \E args \in ReadSetArgs : SetCmd("c1", args)
    \/ SetCommit("c1")
    \/ \E args \in ReadDelArgs : DelCmd("c1", args)
    \/ DelCommit("c1")
    \/ \E args \in GetArgs : GetCmd("c1", args)
    \/ \E args \in ReadMgetArgs : MgetCmd("c1", args)
    \/ MgetRead("c1")
    \/ \E args \in ReadKeysArgs : KeysCmd("c1", args)
    \/ \E args \in CardArgs(BloomKey) : BfCard("c1", args)
    \/ \E args \in MemberArgs(BloomKey) : BfExists("c1", args)
    \/ \E args \in CardArgs(CuckooKey) : CfCard("c1", args)
    \/ \E args \in MemberArgs(CuckooKey) : CfExists("c1", args)

SpecRead == Init /\ [][NextRead]_vars

ConcMsetArgs == {<<BloomKey, v, CuckooKey, v>> : v \in KvValues}

ConcMgetArgs == {<<BloomKey, CuckooKey>>, <<CuckooKey, BloomKey>>}

\* The keys of the store the KEYS command is run on, and its prefixes.
ScanKeys == {"a", "ab", "abc", "b", "ba"}

KeysArgs == {<<>>, <<"a", "b">>} \cup {<<p>> : p \in {"", "a", "ab", "b", "ba", "c"}}

ScanSetArgs == {<<k, "v1">> : k \in ScanKeys}

ScanDelArgs == {<<k>> : k \in ScanKeys}

InitScan ==
    /\ db = [k \in ScanKeys |-> Absent]
    /\ pc = [c \in Clients |-> "idle"]
    /\ cmd = [c \in Clients |-> NoCmd]
    /\ snap = [c \in Clients |-> [k \in ScanKeys |-> Absent]]
    /\ stale = [c \in Clients |-> {}]
    /\ replies = [c \in Clients |-> <<>>]
    /\ overlap = [c \in Clients |-> {}]
    /\ values = [c \in Clients |-> <<>>]

\* One connection setting and deleting keys and listing them.
NextScan ==
    \/ \E args \in ScanSetArgs : SetCmd("c1", args)
    \/ SetCommit("c1")
    \/ \E args \in ScanDelArgs : DelCmd("c1", args)
    \/ DelCommit("c1")
    \/ \E args \in KeysArgs : KeysCmd("c1", args)

SpecScan == InitScan /\ [][NextScan]_vars

\* Two connections issuing concurrently MSET of one value to both keys and
\* MGET of both keys.
NextKvConc ==
    \E c \in Clients :
        \/ \E args \in ConcMsetArgs : MsetCmd(c, args)
        \/ MsetCommit(c)
        \/ \E args \in ConcMgetArgs : MgetCmd(c, args)
        \/ MgetRead(c)

SpecKvConc == Init /\ [][NextKvConc]_vars

\* Two connections issuing concurrently the commands that write a filter key:
\* the two creations, the read-modify-write add, and the delete that makes
\* the key absent again.
ConcBfInsertArgs == {<<BloomKey>>, <<BloomKey, "CAPACITY", "50000">>}

ConcCfInsertArgs == {<<CuckooKey>>, <<CuckooKey, "CAPACITY", "50000">>}

ConcBfAddArgs == {<<BloomKey, m>> : m \in Members}

ConcDelArgs == {<<BloomKey>>}

NextConc ==
    \E c \in Clients :
        \/ \E args \in ConcBfInsertArgs : BfInsert(c, args)
        \/ BfInsertCommit(c)
        \/ \E args \in ConcBfAddArgs : BfAdd(c, args)
        \/ BfAddCommit(c)
        \/ \E args \in ConcCfInsertArgs : CfInsert(c, args)
        \/ CfInsertCommit(c)
        \/ \E args \in ConcDelArgs : DelCmd(c, args)
        \/ DelCommit(c)

SpecConc == Init /\ [][NextConc]_vars

----------------------------------------------------------------------------
(* Properties *)

Idle(c) == pc[c] = "idle"

LastReply(c) == replies[c][Len(replies[c])]

HasError(c) == \E i \in 1..Len(replies[c]) : IsError(replies[c][i])

HasSuccess(c) == \E i \in 1..Len(replies[c]) : ~IsError(replies[c][i])

OneError(c) == Len(replies[c]) = 1 /\ IsError(replies[c][1])

OneInt(c, n) == Len(replies[c]) = 1 /\ replies[c][1].t = "int" /\ replies[c][1].v = n

IsInsert(c) == cmd[c].name \in {"bf.insert", "cf.insert"}

InsertParse(command) ==
    IF command.name = "bf.insert" THEN BfInsertParse(command.args)
    ELSE CfInsertParse(command.args)

\* The command of c is a creation that reached InsertExclusive.
ReachedInsert(c) == Idle(c) /\ IsInsert(c) /\ ~InsertParse(cmd[c]).ret

\* The value the creation command writes.
InsertedValue(command) ==
    LET p == InsertParse(command) IN
    IF command.name = "bf.insert"
    THEN bloomToBytes(NewWithEstimates(p.capacity, p.errorRate), p.capacity, p.errorRate)
    ELSE cuckooEncode(cuckooNewFilter(p.capacity))

\* The last commands of c and d ran concurrently.
Concurrent(c, d) == c # d /\ d \in overlap[c] /\ c \in overlap[d]

\* C1: setExclusive (BF.INSERT / CF.INSERT) on a key that holds any value fails
\* with KeyExists, and a get of the key afterwards returns the value it held.
C1_SetExclusiveKeepsValue ==
    \A c \in Clients :
        (ReachedInsert(c) /\ snap[c][cmd[c].args[1]] # Absent)
        => /\ LastReply(c).t = "error"
           /\ LastReply(c).v = "key already exists"
           /\ ~HasSuccess(c)
           /\ Get(db, cmd[c].args[1]).err = Nil
           /\ Get(db, cmd[c].args[1]).value = snap[c][cmd[c].args[1]]

\* C1 witness: a creation was refused on a key holding a zero-length value.
C1_Witness ==
    \E c \in Clients :
        /\ ReachedInsert(c)
        /\ snap[c][cmd[c].args[1]] = EmptyValue
        /\ db[cmd[c].args[1]] = EmptyValue
        /\ LastReply(c).t = "error"

\* Two creations of c and d raced on a key absent for both.
RacedInserts(c, d) ==
    /\ ReachedInsert(c) /\ ReachedInsert(d) /\ Concurrent(c, d)
    /\ cmd[c].args[1] = cmd[d].args[1]
    /\ snap[c][cmd[c].args[1]] = Absent
    /\ snap[d][cmd[d].args[1]] = Absent

\* C2: of two setExclusive calls racing on an absent key exactly one commits;
\* the other gets an error, and the key holds the winner's value.
C2_RacingInsertsOneWinner ==
    \A c, d \in Clients :
        RacedInserts(c, d)
        => \E w \in {c, d} :
              \A l \in {c, d} \ {w} :
                  /\ HasSuccess(w)
                  /\ HasError(l) /\ ~HasSuccess(l)
                  /\ db[cmd[w].args[1]] = InsertedValue(cmd[w])

\* C2 witness: two creations with different parameters raced; the loser was
\* refused by the store's conflict detection.
C2_Witness ==
    \E c, d \in Clients :
        /\ RacedInserts(c, d)
        /\ InsertedValue(cmd[c]) # InsertedValue(cmd[d])
        /\ HasSuccess(c)
        /\ LastReply(d).t = "error"
        /\ LastReply(d).v = "Transaction Conflict. Please retry"

\* Two BF.ADD of c and d ran concurrently on a key holding a Bloom record.
RacedAdds(c, d) ==
    /\ Idle(c) /\ Idle(d) /\ Concurrent(c, d)
    /\ cmd[c].name = "bf.add" /\ cmd[d].name = "bf.add"
    /\ Len(cmd[c].args) = 2 /\ Len(cmd[d].args) = 2
    /\ cmd[c].args[1] = cmd[d].args[1]
    /\ bloomFromBytes(snap[c][cmd[c].args[1]]).err = Nil
    /\ bloomFromBytes(snap[d][cmd[d].args[1]]).err = Nil

\* C3: after two concurrent BF.ADD on one filter, the stored filter holds both
\* members or one of the two clients got an error reply.
C3_ConcurrentAddsNotLost ==
    \A c, d \in Clients :
        RacedAdds(c, d)
        => \/ HasError(c)
           \/ HasError(d)
           \/ /\ bloomFromBytes(db[cmd[c].args[1]]).err = Nil
              /\ bloomTest(bloomFromBytes(db[cmd[c].args[1]]).filter, cmd[c].args[2])
              /\ bloomTest(bloomFromBytes(db[cmd[c].args[1]]).filter, cmd[d].args[2])

\* C3 witness: two concurrent BF.ADD of different members; one committed, the
\* other was refused with a conflict and its member is not in the filter.
C3_Witness ==
    \E c, d \in Clients :
        /\ RacedAdds(c, d)
        /\ cmd[c].args[2] # cmd[d].args[2]
        /\ ~HasError(c)
        /\ LastReply(d).t = "error"
        /\ LastReply(d).v = "Transaction Conflict. Please retry"
        /\ bloomFromBytes(db[cmd[c].args[1]]).err = Nil
        /\ ~bloomTest(bloomFromBytes(db[cmd[c].args[1]]).filter, cmd[d].args[2])

\* C4 (as claimed): a command that replied with an error left the store as it
\* was before the command.
C4_ErrorReplyLeavesStore ==
    \A c \in Clients : (Idle(c) /\ HasError(c)) => db = snap[c]

\* The value under the key of c's command could not be decoded by the
\* command's filter kind.
Undecodable(c) ==
    /\ snap[c][cmd[c].args[1]] # Absent
    /\ \/ cmd[c].name = "bf.add" /\ bloomFromBytes(snap[c][cmd[c].args[1]]).err # Nil
       \/ cmd[c].name = "cf.add" /\ cuckooDecode(snap[c][cmd[c].args[1]]).err # Nil

\* C5 (as claimed): BF.ADD / CF.ADD on a present key whose value does not
\* decode as that filter replies with an error and leaves the value unchanged.
C5_AddOnUndecodableFails ==
    \A c \in Clients :
        (Idle(c) /\ cmd[c].name \in {"bf.add", "cf.add"} /\ Len(cmd[c].args) = 2
            /\ Undecodable(c))
        => OneError(c) /\ db[cmd[c].args[1]] = snap[c][cmd[c].args[1]]

\* C6 (as claimed): every handled command produced exactly one reply.
C6_ExactlyOneReply ==
    \A c \in Clients : (Idle(c) /\ cmd[c].name # "none") => Len(replies[c]) = 1

\* The option tokens in the letter cases the connections use.
CapacityTokens == {"capacity", "CAPACITY", "Capacity"}

ErrorTokens == {"error", "ERROR", "Error"}

\* The argument list of a creation is not one the command accepts: a count
\* outside 1, 3, 5 (BF.INSERT) or 1, 3 (CF.INSERT), an option token that is not
\* CAPACITY / ERROR, or a numeric value that does not parse.
BadInsertArgs(command) ==
    LET args == command.args
        n == Len(args)
    IN \/ command.name = "bf.insert" /\ n \notin {1, 3, 5}
       \/ command.name = "cf.insert" /\ n \notin {1, 3}
       \/ n >= 3 /\ (args[2] \notin CapacityTokens \/ ParseUint(args[3]).err # Nil)
       \/ n >= 5 /\ (args[4] \notin ErrorTokens \/ ParseFloat(args[5]).err # Nil)

\* C7 (as claimed): a creation with an unacceptable argument list replies with
\* an error and writes nothing.
C7_BadArgsNoWrite ==
    \A c \in Clients :
        (Idle(c) /\ IsInsert(c) /\ BadInsertArgs(cmd[c]))
        => OneError(c) /\ db = snap[c]

\* The filter commands that need an existing record, with their arity.
NeedsRecord(command) ==
    \/ command.name \in {"bf.card", "cf.card"} /\ Len(command.args) = 1
    \/ /\ command.name \in {"bf.add", "bf.exists", "cf.add", "cf.exists", "cf.del"}
       /\ Len(command.args) = 2

\* C8: BF.ADD, BF.CARD, BF.EXISTS, CF.ADD, CF.CARD, CF.EXISTS and CF.DEL on an
\* absent key reply with an error, and the key is still absent afterwards.
C8_AbsentKeyIsAnError ==
    \A c \in Clients :
        (Idle(c) /\ NeedsRecord(cmd[c]) /\ snap[c][cmd[c].args[1]] = Absent)
        => OneError(c) /\ db[cmd[c].args[1]] = Absent /\ db = snap[c]

\* C8 witness: CF.CARD, which drops the error of the read, was refused on an
\* absent key.
C8_Witness ==
    \E c \in Clients :
        /\ Idle(c) /\ cmd[c].name = "cf.card" /\ NeedsRecord(cmd[c])
        /\ snap[c][cmd[c].args[1]] = Absent
        /\ OneError(c)

\* C9 (as claimed): BF.ADD replies 1 exactly when the filter did not report the
\* member present before the command, and 0 when it did.
C9_BfAddRepliesNewlyAdded ==
    \A c \in Clients :
        (Idle(c) /\ cmd[c].name = "bf.add" /\ Len(cmd[c].args) = 2
            /\ bloomFromBytes(snap[c][cmd[c].args[1]]).err = Nil /\ ~HasError(c))
        => OneInt(c, IF bloomTest(bloomFromBytes(snap[c][cmd[c].args[1]]).filter,
                                  cmd[c].args[2])
                     THEN 0 ELSE 1)

\* CF.DEL of c named a member the Cuckoo record held.
DeletedMember(c) ==
    /\ Idle(c) /\ cmd[c].name = "cf.del" /\ Len(cmd[c].args) = 2
    /\ cuckooDecode(snap[c][cmd[c].args[1]]).err = Nil
    /\ cuckooLookup(cuckooDecode(snap[c][cmd[c].args[1]]).filter, cmd[c].args[2])

\* C10 (as claimed): CF.DEL of an added member replies 1; afterwards CF.CARD returns one
\* less, CF.EXISTS of the member returns 0 and the other members still test
\* as present.
C10_CfDelRemovesMember ==
    \A c \in Clients :
        DeletedMember(c)
        => LET key == cmd[c].args[1]
               before == cuckooDecode(snap[c][key]).filter
           IN /\ OneInt(c, 1)
              /\ CfCardReply(db, <<key>>) = <<IntReply(cuckooCount(before) - 1)>>
              /\ CfExistsReply(db, <<key, cmd[c].args[2]>>) = <<IntReply(0)>>
              /\ \A m \in Members \ {cmd[c].args[2]} :
                    cuckooLookup(before, m)
                    => CfExistsReply(db, <<key, m>>) = <<IntReply(1)>>

\* A reply list that is the single integer n.
ReplyIsInt(rs, n) == Len(rs) = 1 /\ rs[1].t = "int" /\ rs[1].v = n

\* BF.EXISTS of m on the Bloom key would reply 1 in store s.
BloomHas(s, m) == ReplyIsInt(BfExistsReply(s, <<BloomKey, m>>), 1)

\* BF.CARD on the Bloom key would reply n in store s.
BloomCardIs(s, n) == ReplyIsInt(BfCardReply(s, <<BloomKey>>), n)

\* The step commits a command that deletes or overwrites keys.
Overwrites ==
    \E c \in Clients :
        pc[c] = "txn" /\ pc'[c] = "idle" /\ cmd[c].name \in {"set", "del", "mset"}

\* A creation leaves an empty filter, and a successful BF.ADD of m on a filter
\* of n members leaves m present and n members, or n + 1 if m is new.
C11_AfterAdd ==
    \A c \in Clients :
        /\ (ReachedInsert(c) /\ cmd[c].name = "bf.insert"
                /\ cmd[c].args[1] = BloomKey /\ ~IsError(LastReply(c)))
           => BloomCardIs(db, 0)
        /\ (Idle(c) /\ cmd[c].name = "bf.add" /\ Len(cmd[c].args) = 2
                /\ cmd[c].args[1] = BloomKey
                /\ bloomFromBytes(snap[c][BloomKey]).err = Nil /\ ~HasError(c))
           => /\ BloomHas(db, cmd[c].args[2])
              /\ \A n \in 0..Cardinality(Members) :
                    BloomCardIs(snap[c], n)
                    => BloomCardIs(db, IF BloomHas(snap[c], cmd[c].args[2])
                                       THEN n ELSE n + 1)

\* Unless the step deletes or overwrites keys, the members BF.EXISTS reports
\* stay reported, and BF.CARD stays or grows by one.
C11_Kept ==
    ~Overwrites
    => /\ \A m \in Members : BloomHas(db, m) => BloomHas(db', m)
       /\ \A n \in 0..Cardinality(Members) :
             BloomCardIs(db, n) => BloomCardIs(db', n) \/ BloomCardIs(db', n + 1)

\* C11: after BF.INSERT and n successful BF.ADD of distinct members, BF.CARD
\* returns n and BF.EXISTS returns 1 for every added member, in every later
\* state until the key is deleted or overwritten.
C11_AddsPersist == []C11_AfterAdd /\ [][C11_Kept]_vars

\* C11 witness: after two members were added, a later BF.CARD replied 2 and
\* both members still test as present.
C11_Witness ==
    \E c \in Clients :
        /\ Idle(c) /\ cmd[c].name = "bf.card" /\ OneInt(c, 2)
        /\ \A m \in Members : BloomHas(db, m)

\* A reply list that is the single bulk value val.
ReplyIsBulk(rs, val) == Len(rs) = 1 /\ rs[1].t = "bulk" /\ rs[1].v = val

\* The reply of c is the single status OK.
OneOK(c) == Len(replies[c]) = 1 /\ replies[c][1].t = "status"

\* The last command of c was a SET of two arguments.
DidSet(c) == Idle(c) /\ cmd[c].name = "set" /\ Len(cmd[c].args) = 2

\* C12 (as claimed): SET k v replies OK for every key k and value v, whatever
\* the key held, and a GET k that follows replies exactly v.
C12_SetThenGet ==
    \A c \in Clients :
        DidSet(c)
        => /\ OneOK(c)
           /\ ReplyIsBulk(GetReply(db, <<cmd[c].args[1]>>), Plain(cmd[c].args[2]))

\* C12, keys the store accepts: the same for every key other than the
\* zero-length key.
C12_SetThenGetNonEmptyKey ==
    \A c \in Clients :
        (DidSet(c) /\ cmd[c].args[1] # "")
        => /\ OneOK(c)
           /\ ReplyIsBulk(GetReply(db, <<cmd[c].args[1]>>), Plain(cmd[c].args[2]))

\* Key k holds a value in store s.
Present(s, k) == k \in DOMAIN s /\ s[k] # Absent

\* The last command of c was an MGET of at least two keys.
DidMget(c) == Idle(c) /\ cmd[c].name = "mget" /\ Len(cmd[c].args) >= 2

\* The reply of c is one array holding, in request order, the values the
\* requested keys have in store s.
RepliedValuesOf(c, s) ==
    /\ Len(replies[c]) = 1
    /\ replies[c][1].t = "array"
    /\ Len(replies[c][1].v) = Len(cmd[c].args)
    /\ \A i \in 1..Len(cmd[c].args) :
          /\ Present(s, cmd[c].args[i])
          /\ replies[c][1].v[i] = Bulk(s[cmd[c].args[i]])

\* C13: MGET k1..kn replies with an error and no array when any requested key
\* is absent, wherever it stands; when all are present it replies with an
\* array of exactly n values in request order.
C13_MgetAllOrNothing ==
    \A c \in Clients :
        DidMget(c)
        => IF \E i \in 1..Len(cmd[c].args) : ~Present(snap[c], cmd[c].args[i])
           THEN OneError(c)
           ELSE RepliedValuesOf(c, snap[c])

\* C13 witness: the first key was present and read, a later key was absent,
\* and the reply is an error.
C13_Witness ==
    \E c \in Clients :
        /\ DidMget(c)
        /\ Present(snap[c], cmd[c].args[1])
        /\ ~Present(snap[c], cmd[c].args[2])
        /\ OneError(c)

\* The command of c is an MSET of key/value pairs.
IsMset(c) ==
    cmd[c].name = "mset" /\ Len(cmd[c].args) >= 2 /\ Len(cmd[c].args) % 2 = 0

\* Store s holds every pair of c's MSET (the last value given for a key).
AllPairsIn(c, s) ==
    \A i \in 1..(Len(cmd[c].args) \div 2) :
        /\ cmd[c].args[2 * i - 1] \in DOMAIN s
        /\ s[cmd[c].args[2 * i - 1]] =
              Plain(LastValue(cmd[c].args, cmd[c].args[2 * i - 1]))

\* C14: an MSET either replies OK with every pair persisted, or replies with
\* an error with the store unchanged; while it runs nothing of it is visible.
C14_MsetAllOrNothing ==
    \A c \in Clients :
        IsMset(c)
        => /\ pc[c] = "txn" => db = snap[c]
           /\ Idle(c) => \/ OneOK(c) /\ AllPairsIn(c, db)
                         \/ OneError(c) /\ db = snap[c]

\* C14 witness: one write of an MSET failed, the other pair would have changed
\* its key, and the store is as before.
C14_Witness ==
    \E c \in Clients :
        /\ Idle(c) /\ IsMset(c) /\ Len(cmd[c].args) = 4
        /\ OneError(c)
        /\ \E i \in 1..2 :
              /\ Present(db, cmd[c].args[2 * i - 1])
              /\ db[cmd[c].args[2 * i - 1]] # Plain(cmd[c].args[2 * i])
        /\ db = snap[c]

\* C15: an MGET of two keys running concurrently with MSETs that write both
\* keys replies the values the keys had at one instant (when its read-only
\* transaction began): both from before or both from after any one MSET.  As
\* every MSET here writes one value to both keys, the two values replied are
\* equal.
C15_MgetSeesSnapshot ==
    \A c \in Clients :
        /\ (pc[c] = "view" /\ Len(values[c]) = 1)
           => values[c][1] = snap[c][cmd[c].args[1]]
        /\ (DidMget(c) /\ ~HasError(c))
           => /\ RepliedValuesOf(c, snap[c])
              /\ replies[c][1].v[1] = replies[c][1].v[2]

\* C15 witness: an MGET that ran concurrently with an MSET replied the two
\* values from before the MSET, which has changed both keys.
C15_Witness ==
    \E c, d \in Clients :
        /\ DidMget(c) /\ ~HasError(c) /\ Concurrent(c, d)
        /\ Idle(d) /\ IsMset(d) /\ OneOK(d) /\ AllPairsIn(d, db)
        /\ \A k \in Keys : db[k] # snap[c][k]
        /\ RepliedValuesOf(c, snap[c])

\* The last command of c was a DEL of at least one key.
DidDel(c) == Idle(c) /\ cmd[c].name = "del" /\ Len(cmd[c].args) >= 1

\* GET k would reply nil in store s.
GetsNil(s, k) == Len(GetReply(s, <<k>>)) = 1 /\ GetReply(s, <<k>>)[1].t = "nil"

\* DEL of keys, run on store s, would leave s as it is.
DelChangesNothing(s, keys) ==
    LET r == DbUpdate(DeleteBulk(s, keys), {}) IN
    \A k \in DOMAIN r.writes : r.writes[k] = s[k]

\* What C16 says of a DEL that c ran.
DelIsIdempotent(c) ==
    /\ (\A i \in 1..Len(cmd[c].args) : ~Present(snap[c], cmd[c].args[i]))
       => ~HasError(c) /\ db = snap[c]
    /\ \A i \in 1..Len(cmd[c].args) : GetsNil(db, cmd[c].args[i])
    /\ DelChangesNothing(db, cmd[c].args)

\* C16 (as claimed): DEL of absent keys is no error and leaves the store
\* unchanged; after DEL k, whatever k held, GET k replies nil; a second DEL k
\* changes nothing.
C16_DelIdempotent == \A c \in Clients : DidDel(c) => DelIsIdempotent(c)

\* C16, keys the store accepts: the same when no key of the DEL is the
\* zero-length key.
C16_DelIdempotentNonEmptyKey ==
    \A c \in Clients :
        (DidDel(c) /\ \A i \in 1..Len(cmd[c].args) : cmd[c].args[i] # "")
        => DelIsIdempotent(c)

\* The last command of c was a creation that was accepted on an absent key.
Created(c) ==
    /\ ReachedInsert(c) /\ ~HasError(c)
    /\ snap[c][cmd[c].args[1]] = Absent

\* C17 (as claimed): BF.INSERT key creates a filter with capacity 1,000,000
\* and error rate 0.01, BF.INSERT key CAPACITY n one with capacity n and error
\* rate 0.01, and CF.INSERT key one with capacity 1,000,000.
C17_DefaultsPerParameter ==
    \A c \in Clients :
        Created(c)
        => LET n == Len(cmd[c].args)
               v == db[cmd[c].args[1]]
           IN /\ (cmd[c].name = "bf.insert" /\ n = 1)
                 => v.kind = "bloom" /\ v.est = <<1000000, "0.01">>
              /\ (cmd[c].name = "bf.insert" /\ n = 3)
                 => v.kind = "bloom" /\ v.est = <<ParseUint(cmd[c].args[3]).v, "0.01">>
              /\ (cmd[c].name = "cf.insert" /\ n = 1)
                 => v.kind = "cuckoo" /\ v.cap = 1000000

\* The argument list with its option tokens in upper case.
Canon(args) ==
    [i \in 1..Len(args) |->
        IF i = 2 THEN "CAPACITY" ELSE IF i = 4 THEN "ERROR" ELSE args[i]]

\* C18 (as claimed): a creation whose option tokens are CAPACITY / ERROR in any
\* letter case has the reply and the store effect of the same command with the
\* tokens in upper case: on an absent key it creates the same record without
\* an error.
C18_TokensAnyCase ==
    \A c \in Clients :
        (Idle(c) /\ IsInsert(c) /\ ~BadInsertArgs(cmd[c])
            /\ snap[c][cmd[c].args[1]] = Absent)
        => /\ ~HasError(c)
           /\ db[cmd[c].args[1]] =
                 InsertedValue(Command(cmd[c].name, Canon(cmd[c].args)))

\* The argument lists the connections send with the creation named name.
InsertArgsOf(name) == IF name = "bf.insert" THEN BfInsertArgs ELSE CfInsertArgs

\* Argument-error classes of a creation: a count the command does not take;
\* a well-counted list with an option token that is not CAPACITY / ERROR; a
\* well-counted, well-named list with a numeric value that does not parse.
WrongCount(command) ==
    Len(command.args) \in {0, 2, 4}
    \/ (command.name = "cf.insert" /\ Len(command.args) >= 4)

WrongOptionName(command) ==
    LET args == command.args IN
    /\ ~WrongCount(command) /\ Len(args) \in {3, 5}
    /\ \/ args[2] \notin CapacityTokens
       \/ Len(args) = 5 /\ args[4] \notin ErrorTokens

Unparseable(command) ==
    LET args == command.args IN
    /\ ~WrongCount(command) /\ Len(args) \in {3, 5}
    /\ ~WrongOptionName(command)
    /\ \/ ParseUint(args[3]).err # Nil
       \/ Len(args) = 5 /\ ParseFloat(args[5]).err # Nil

\* The replies the creation named name gives to the argument lists of a class.
ErrorsOfCount(name) ==
    {InsertParse(Command(name, a)).errs :
        a \in {b \in InsertArgsOf(name) : WrongCount(Command(name, b))}}

ErrorsOfUnparseable(name) ==
    {InsertParse(Command(name, a)).errs :
        a \in {b \in InsertArgsOf(name) : Unparseable(Command(name, b))}}

\* C19 (as claimed): a wrong option name is answered with one error reply that
\* no wrong argument count and no unparseable number gets, and an unparseable
\* number with one that no wrong argument count gets.
C19_DistinctErrorReplies ==
    \A c \in Clients :
        (Idle(c) /\ IsInsert(c))
        => /\ WrongOptionName(cmd[c])
              => /\ OneError(c)
                 /\ replies[c] \notin ErrorsOfCount(cmd[c].name)
                 /\ replies[c] \notin ErrorsOfUnparseable(cmd[c].name)
           /\ Unparseable(cmd[c])
              => /\ OneError(c)
                 /\ replies[c] \notin ErrorsOfCount(cmd[c].name)

\* The header (capacity, error rate) bloomFromBytes decodes from a value.
HeaderOf(value) == <<bloomFromBytes(value).capacity, bloomFromBytes(value).errorRate>>

\* C20 (as claimed): the header decoded from a record BF.INSERT created is the
\* capacity and error rate the creation went on with, and a BF.ADD leaves the
\* decoded header as it was.
C20_HeaderKept ==
    \A c \in Clients :
        /\ (Created(c) /\ cmd[c].name = "bf.insert")
           => /\ bloomFromBytes(db[cmd[c].args[1]]).err = Nil
              /\ HeaderOf(db[cmd[c].args[1]]) =
                    <<InsertParse(cmd[c]).capacity, InsertParse(cmd[c]).errorRate>>
        /\ (Idle(c) /\ cmd[c].name = "bf.add" /\ Len(cmd[c].args) = 2
                /\ bloomFromBytes(snap[c][cmd[c].args[1]]).err = Nil)
           => /\ bloomFromBytes(db[cmd[c].args[1]]).err = Nil
              /\ HeaderOf(db[cmd[c].args[1]]) = HeaderOf(snap[c][cmd[c].args[1]])

\* C20, the part that holds: BF.ADD leaves the decoded header as it was.
C20_AddKeepsHeader ==
    \A c \in Clients :
        (Idle(c) /\ cmd[c].name = "bf.add" /\ Len(cmd[c].args) = 2
            /\ bloomFromBytes(snap[c][cmd[c].args[1]]).err = Nil)
        => /\ bloomFromBytes(db[cmd[c].args[1]]).err = Nil
           /\ HeaderOf(db[cmd[c].args[1]]) = HeaderOf(snap[c][cmd[c].args[1]])

\* bloomFromBytes(bloomToBytes(f, cap, err)) for the filter f a value holds and
\* the estimates (cap, err) f was created with.
RoundTrip(value) ==
    LET f == bloomFromBytes(value).filter IN
    bloomFromBytes(bloomToBytes(f, f.est[1], f.est[2]))

\* The decoded filter answers membership and cardinality as f does.
SameAnswers(value) ==
    LET f == bloomFromBytes(value).filter
        g == RoundTrip(value).filter
    IN /\ RoundTrip(value).err = Nil
       /\ \A m \in Members : bloomTest(g, m) = bloomTest(f, m)
       /\ bloomApproximatedSize(g) = bloomApproximatedSize(f)

\* C21 (as claimed): for every filter f the store holds and the (cap, err) it
\* was created with, decoding the encoding of (f, cap, err) returns cap, err
\* and a filter with the same membership answers and cardinality.
C21_CodecRoundTrip ==
    \A k \in DOMAIN db :
        db[k].kind = "bloom"
        => /\ SameAnswers(db[k])
           /\ RoundTrip(db[k]).capacity = bloomFromBytes(db[k]).filter.est[1]
           /\ RoundTrip(db[k]).errorRate = bloomFromBytes(db[k]).filter.est[2]

\* C21, the part that holds: the error rate and the filter round-trip.
C21_FilterAndRateRoundTrip ==
    \A k \in DOMAIN db :
        db[k].kind = "bloom"
        => /\ SameAnswers(db[k])
           /\ RoundTrip(db[k]).errorRate = bloomFromBytes(db[k]).filter.est[2]

\* The last command of c was a KEYS of at most one argument.
DidKeys(c) == Idle(c) /\ cmd[c].name = "keys" /\ Len(cmd[c].args) <= 1

\* The keys KEYS must list in store s: every present key, or the present keys
\* with the given prefix.
Listed(s, args) ==
    {k \in DOMAIN s : s[k] # Absent /\ (Len(args) = 1 => HasPrefix(k, args[1]))}

\* C22: KEYS replies with every present key, KEYS p with exactly the present
\* keys that have the prefix p; each key once, in ascending byte order.
C22_KeysSortedAndExact ==
    \A c \in Clients :
        DidKeys(c)
        => /\ Len(replies[c]) = 1
           /\ replies[c][1].t = "array"
           /\ LET ks == replies[c][1].v IN
              /\ {ks[i].v : i \in 1..Len(ks)} = Listed(snap[c], cmd[c].args)
              /\ Len(ks) = Cardinality(Listed(snap[c], cmd[c].args))
              /\ \A i, j \in 1..Len(ks) : i < j => KeyLess(ks[i].v, ks[j].v)

\* C22 witness: KEYS with a prefix listed two keys and left out a present key
\* above them and a present key below them.
C22_Witness ==
    \E c \in Clients :
        /\ DidKeys(c) /\ cmd[c].args = <<"ab">>
        /\ \A k \in {"a", "ab", "abc", "b"} : snap[c][k] # Absent
        /\ replies[c] = <<Array(<<Bulk("ab"), Bulk("abc")>>)>>

ReadOnlyNames ==
    {"get", "mget", "keys", "bf.card", "bf.exists", "cf.card", "cf.exists"}

\* C23: GET, MGET, KEYS, BF.CARD, BF.EXISTS, CF.CARD and CF.EXISTS never change
\* the store: while and after the command runs, whatever it replies, the store
\* is the store the command found.
C23_ReadOnlyCommands ==
    \A c \in Clients : cmd[c].name \in ReadOnlyNames => db = snap[c]

\* C23 witness: BF.EXISTS replied 0 for a member the filter does not hold, and
\* the filter is as it was.
C23_Witness ==
    \E c \in Clients :
        /\ Idle(c) /\ cmd[c].name = "bf.exists" /\ OneInt(c, 0)
        /\ db[BloomKey].kind = "bloom"
        /\ ~BloomHas(db, cmd[c].args[2])
        /\ db = snap[c]

DidAdd(c) ==
    Idle(c) /\ cmd[c].name \in {"bf.add", "cf.add"} /\ Len(cmd[c].args) = 2

AddFn(c) ==
    [op |-> IF cmd[c].name = "bf.add" THEN "BfAdd" ELSE "CfAdd", m |-> cmd[c].args[2]]

\* C24: UpdateFunc on a present key whose closure returns an error still writes
\* the closure's empty result in the same transaction and returns what that
\* write returned, not the closure's error; on an absent key it returns an
\* error without calling the closure and without writing.
C24_UpdateFuncOnMutateError ==
    \A c \in Clients :
        DidAdd(c) =>
            LET key == cmd[c].args[1]
                u == UpdateFunc(snap[c], key, AddFn(c))
            IN /\ Undecodable(c) =>
                     /\ Call(AddFn(c), snap[c][key]).err # Nil
                     /\ u.writes = key :> EmptyValue
                     /\ u.err = txnModify(key)
                     /\ ~HasError(c)
                     /\ db[key] = EmptyValue
               /\ snap[c][key] = Absent =>
                     /\ u.err # Nil /\ u.out = NoOut /\ u.writes = NoWrites
                     /\ OneError(c)
                     /\ db = snap[c]

\* C24 witness: BF.ADD on a key holding a plain value replied an integer and
\* left the empty value under the key.
C24_Witness ==
    \E c \in Clients :
        /\ DidAdd(c) /\ cmd[c].name = "bf.add" /\ Undecodable(c)
        /\ snap[c][BloomKey].kind = "plain"
        /\ OneInt(c, 0)
        /\ db[BloomKey] = EmptyValue

\* C24 witness of the other case: CF.ADD on an absent key replied an error.
C24_WitnessAbsent ==
    \E c \in Clients :
        /\ DidAdd(c) /\ cmd[c].name = "cf.add"
        /\ snap[c][CuckooKey] = Absent /\ OneError(c) /\ db[CuckooKey] = Absent

RECURSIVE Lines(_, _)
\* n copies of msg, one per line.
Lines(msg, n) == IF n = 1 THEN msg ELSE msg \o "\n" \o Lines(msg, n - 1)

FailedDeletes(c) == {i \in 1..Len(cmd[c].args) : cmd[c].args[i] = ""}

C25_WitnessDeleted ==
    \E c \in Clients :
        /\ DidDel(c) /\ cmd[c].args = <<BloomKey, CuckooKey>>
        /\ snap[c][BloomKey] # Absent /\ snap[c][CuckooKey] # Absent
        /\ OneInt(c, 2)
        /\ db[BloomKey] = Absent /\ db[CuckooKey] = Absent

=============================================================================
